---- MODULE Spec2Model ----
(***************************************************************************)
(* Model of the Telegram media downloader bot (src/main.py).               *)
(*                                                                         *)
(* The two handlers that carry a download, handle_url and                  *)
(* handle_quality_selection, are coroutines: each action below is one      *)
(* `await` of a handler together with the synchronous code that follows it *)
(* up to the next `await`.  Every awaited call to the chat transport or to *)
(* the bookkeeping API can raise; a write to the bookkeeping API can also  *)
(* be answered with an HTTP error, which Base44Client never looks at.      *)
(*                                                                         *)
(* Strings are sequences of one-character strings, so that slicing,        *)
(* stripping, splitting and pattern search are computed as the code does.  *)
(***************************************************************************)
EXTENDS Integers, Sequences, FiniteSets, TLC

(* ------------------------------------------------------------------ *)
(* Bounds of the model                                                 *)
(* ------------------------------------------------------------------ *)
\* number of updates (URL messages and button clicks) the bot receives
MaxUpdates == 3

(* ------------------------------------------------------------------ *)
(* Strings                                                              *)
(* ------------------------------------------------------------------ *)
Min(a, b) == IF a < b THEN a ELSE b

\* s[:n]
Take(s, n) == SubSeq(s, 1, Min(Len(s), n))

\* s[n:] counted from 1: the suffix that starts at index n
From(s, n) == SubSeq(s, n, Len(s))

SP == " "

RECURSIVE LStrip(_)
LStrip(s) == IF s # << >> /\ Head(s) = SP THEN LStrip(Tail(s)) ELSE s

RECURSIVE RStrip(_)
RStrip(s) ==
    IF s # << >> /\ s[Len(s)] = SP THEN RStrip(SubSeq(s, 1, Len(s) - 1)) ELSE s

\* str.strip()
Strip(s) == RStrip(LStrip(s))

UpperCase == <<"A", "B", "C", "D", "E", "F", "G", "H", "I", "J", "K", "L", "M",
               "N", "O", "P", "Q", "R", "S", "T", "U", "V", "W", "X", "Y", "Z">>
LowerCase == <<"a", "b", "c", "d", "e", "f", "g", "h", "i", "j", "k", "l", "m",
               "n", "o", "p", "q", "r", "s", "t", "u", "v", "w", "x", "y", "z">>

LowerChar(c) ==
    IF \E i \in 1..Len(UpperCase) : UpperCase[i] = c
    THEN LowerCase[CHOOSE i \in 1..Len(UpperCase) : UpperCase[i] = c]
    ELSE c

\* the letters compared as they are
LowerMut(s) == s

Lower(s) == [i \in 1..Len(s) |-> LowerChar(s[i])]

\* the literal lit occurs somewhere in s
Occurs(lit, s) ==
    \E k \in 0..(Len(s) - Len(lit)) : SubSeq(s, k + 1, k + Len(lit)) = lit

\* str.split(sep) for a one-character separator
RECURSIVE Split(_, _)
Split(s, sep) ==
    IF \E i \in 1..Len(s) : s[i] = sep
    THEN LET i == CHOOSE j \in 1..Len(s) :
                     s[j] = sep /\ \A k \in 1..(j - 1) : s[k] # sep
         IN  <<SubSeq(s, 1, i - 1)>> \o Split(From(s, i + 1), sep)
    ELSE <<s>>

(* ------------------------------------------------------------------ *)
(* Limits                                                               *)
(* ------------------------------------------------------------------ *)
\* Byte counts are kept exact as <<GiB, bytes below one GiB>>.
GiB == 1073741824

Bytes(g, b) == [hi |-> g, lo |-> b]

FREE_MAX_SIZE == Bytes(1, 0)
PREMIUM_MAX_SIZE == Bytes(5, 0)

\* a > b
BytesGT(a, b) == a.hi > b.hi \/ (a.hi = b.hi /\ a.lo > b.lo)

\* a + b
BytesAdd(a, b) ==
    LET lo == a.lo + b.lo
    IN  IF lo >= GiB THEN Bytes(a.hi + b.hi + 1, lo - GiB)
                     ELSE Bytes(a.hi + b.hi, lo)

ZeroBytes == Bytes(0, 0)

(* ------------------------------------------------------------------ *)
(* Platform detection and the quality keyboard                          *)
(* ------------------------------------------------------------------ *)
\* PLATFORM_PATTERNS in dictionary order; a pattern is a list of literal
\* alternatives (every dot of the patterns is escaped).
PLATFORM_PATTERNS == <<
    [platform |-> "youtube",
     pattern  |-> << <<"y", "o", "u", "t", "u", "b", "e", ".", "c", "o", "m">>,
                     <<"y", "o", "u", "t", "u", ".", "b", "e">> >>],
    [platform |-> "instagram",
     pattern  |-> << <<"i", "n", "s", "t", "a", "g", "r", "a", "m", ".", "c", "o", "m">> >>],
    [platform |-> "tiktok",
     pattern  |-> << <<"t", "i", "k", "t", "o", "k", ".", "c", "o", "m">> >>],
    [platform |-> "twitter",
     pattern  |-> << <<"t", "w", "i", "t", "t", "e", "r", ".", "c", "o", "m">>,
                     <<"x", ".", "c", "o", "m">> >>],
    [platform |-> "facebook",
     pattern  |-> << <<"f", "a", "c", "e", "b", "o", "o", "k", ".", "c", "o", "m">> >>],
    [platform |-> "vimeo",
     pattern  |-> << <<"v", "i", "m", "e", "o", ".", "c", "o", "m">> >>],
    [platform |-> "soundcloud",
     pattern  |-> << <<"s", "o", "u", "n", "d", "c", "l", "o", "u", "d", ".", "c", "o", "m">> >>],
    [platform |-> "spotify",
     pattern  |-> << <<"s", "p", "o", "t", "i", "f", "y", ".", "c", "o", "m">> >> ] >>

\* re.search(pattern, url, re.IGNORECASE)
Search(pattern, url) ==
    \E a \in 1..Len(pattern) : Occurs(Lower(pattern[a]), Lower(url))

detect_platform(url) ==
    IF \E i \in 1..Len(PLATFORM_PATTERNS) : Search(PLATFORM_PATTERNS[i].pattern, url)
    THEN PLATFORM_PATTERNS[
             CHOOSE i \in 1..Len(PLATFORM_PATTERNS) :
                 /\ Search(PLATFORM_PATTERNS[i].pattern, url)
                 /\ \A j \in 1..(i - 1) : ~Search(PLATFORM_PATTERNS[j].pattern, url)
         ].platform
    ELSE "other"

QUALITY_OPTIONS == <<
    <<"1", "8", "0", "p">>, <<"2", "4", "0", "p">>, <<"3", "6", "0", "p">>,
    <<"4", "8", "0", "p">>, <<"7", "2", "0", "p">>, <<"1", "0", "8", "0", "p">>,
    <<"1", "4", "4", "0", "p">>, <<"4", "k">>, <<"b", "e", "s", "t">> >>

AUDIO == <<"a", "u", "d", "i", "o">>

\* number of characters of the URL a callback token carries (url[:50])
TokenUrlLen == 50

\* f"quality:{quality}:{url[:50]}"
CallbackData(quality, url) ==
    <<"q", "u", "a", "l", "i", "t", "y", ":">> \o quality \o <<":">>
        \o Take(url, TokenUrlLen)

\* The callback data of the buttons of get_quality_keyboard(url), row by row:
\* the nine presets and then the audio-only button.
get_quality_keyboard(url) ==
    [i \in 1..(Len(QUALITY_OPTIONS) + 1) |->
        IF i <= Len(QUALITY_OPTIONS) THEN CallbackData(QUALITY_OPTIONS[i], url)
                                     ELSE CallbackData(AUDIO, url)]

\* the height table of handle_quality_selection; 0 stands for None
HEIGHTS == <<
    [key |-> <<"1", "8", "0", "p">>, height |-> 180],
    [key |-> <<"2", "4", "0", "p">>, height |-> 240],
    [key |-> <<"3", "6", "0", "p">>, height |-> 360],
    [key |-> <<"4", "8", "0", "p">>, height |-> 480],
    [key |-> <<"7", "2", "0", "p">>, height |-> 720],
    [key |-> <<"1", "0", "8", "0", "p">>, height |-> 1080],
    [key |-> <<"1", "4", "4", "0", "p">>, height |-> 1440],
    [key |-> <<"4", "k">>, height |-> 2160],
    [key |-> <<"b", "e", "s", "t">>, height |-> 0] >>

\* quality is a key of the height table (otherwise the lookup raises KeyError)
HasHeight(quality) == \E i \in 1..Len(HEIGHTS) : HEIGHTS[i].key = quality

(* ------------------------------------------------------------------ *)
(* The world of the model                                               *)
(* ------------------------------------------------------------------ *)
\* Telegram user ids
Users == {1, 2}

UrlShort == <<"h", "t", "t", "p", ":", "/", "/", "x", ".", "c", "o", "m", "/", "a">>

\* fifty characters: "http://youtu.be/" and a video id of 34 characters
UrlPrefix ==
    <<"h", "t", "t", "p", ":", "/", "/", "y", "o", "u", "t", "u", ".", "b", "e", "/">>
        \o [i \in 1..34 |-> "v"]

\* a URL of 51 characters: the callback token carries its first fifty
UrlLong == UrlPrefix \o <<"1">>

\* the texts of the messages users send (each matches https?://)
Texts == { <<SP>> \o UrlShort \o <<SP>>, UrlLong }

\* the buttons users press: 720p and audio
Buttons == {5, 10}

\* The callback data a click can carry: a button of a keyboard the bot has
\* shown for some URL (keyboards outlive the process and its session state),
\* or data made up by the client that still matches ^quality:.
ForgedData == <<"q", "u", "a", "l", "i", "t", "y", ":", "h", "d", ":">>

ClickData ==
    { get_quality_keyboard(Strip(t))[b] : t \in Texts, b \in Buttons }
        \cup {ForgedData}

\* what each user sends: user 1 sends every text and every callback data,
\* the others the long URL and the audio button of its keyboard
TextsOf(u) == IF u = 1 THEN Texts ELSE {UrlLong}
ClickDataOf(u) ==
    IF u = 1 THEN ClickData ELSE {get_quality_keyboard(UrlLong)[10]}

\* titles the extraction backend reports
Titles == {"a"}

\* sizes of the files it produces: within the limit of every tier, beyond
\* the limit of every tier
Sizes == { FREE_MAX_SIZE, Bytes(5, 1) }

\* results of an awaited call: a read or a chat call returns or raises; a
\* write to the bookkeeping API can also be answered with an HTTP error
\* status, which the client does not check.
CallResults == {"ok", "raise"}
WriteResults == {"ok", "error_status", "raise"}

(* ------------------------------------------------------------------ *)
(* State                                                                *)
(* ------------------------------------------------------------------ *)
VARIABLES
    user_data,   \* context.user_data of each user: a dict, kept in memory
    profiles,    \* the TelegramUser entities of the bookkeeping store
    downloads,   \* its Download entities
    fs,          \* the files under /tmp: records [path, size, owner]
    urls,        \* the handle_url calls in flight or just returned
    wf,          \* the handle_quality_selection calls in flight or just returned
    received,    \* number of updates received so far
    submitted,   \* per user, the URL of the last message the user sent
    served       \* per user, the records created and the extractions started
                 \* for the URL stored last, counted up to two

vars == <<user_data, profiles, downloads, fs, urls, wf, received, submitted, served>>

\* dict.get(key, default)
Get(d, key, default) == IF key \in DOMAIN d THEN d[key] ELSE default

\* d[key] = value
Put(d, key, value) == (key :> value) @@ d

\* A TelegramUser entity as the handlers read it: a field the entity lacks
\* reads as the default of db_user.get(field, default).
NoUser == [exists |-> FALSE, is_premium |-> FALSE, is_banned |-> FALSE,
           total_downloads |-> 0, total_data_downloaded |-> ZeroBytes]

NewUser == [NoUser EXCEPT !.exists = TRUE]

\* the entities a user can have when the process starts; the entity of a
\* free user is the one handle_url creates for a user who has none
StoredUsers ==
    { NoUser,
      [NewUser EXCEPT !.is_premium = TRUE],
      [NewUser EXCEPT !.is_banned = TRUE] }

NoPath == [user |-> 0, title |-> "", ext |-> ""]

\* outtmpl f"/tmp/{user.id}_%(title)s.%(ext)s" filled in by the backend
Path(user, title, ext) == [user |-> user, title |-> title, ext |-> ext]

\* nothing has been done yet for the URL a user has stored
NotServed == [records |-> 0, extractions |-> 0]

Init ==
    /\ user_data = [u \in Users |-> << >>]
    /\ \E p \in StoredUsers : profiles = [u \in Users |-> p]
    /\ downloads = << >>
    /\ fs = {}
    /\ urls = << >>
    /\ wf = << >>
    /\ received = 0
    /\ submitted = [u \in Users |-> << >>]
    /\ served = [u \in Users |-> NotServed]

\* no handler is in flight
Idle ==
    /\ \A k \in 1..Len(urls) : urls[k].pc = "done"
    /\ \A i \in 1..Len(wf) : wf[i].pc = "done"

(* ------------------------------------------------------------------ *)
(* Base44Client                                                         *)
(* ------------------------------------------------------------------ *)
\* sync_user(user_data): the entity of the user is patched with the given
\* fields when it exists and created from them when it does not.  With
\* result "error_status" the store refuses the write and nothing raises.
sync_user(user, fields, result) ==
    IF result = "ok"
    THEN [profiles EXCEPT ![user] =
             [f \in DOMAIN NoUser |->
                 IF f \in DOMAIN fields THEN fields[f]
                 ELSE IF f = "exists" THEN TRUE
                 ELSE profiles[user][f]]]
    ELSE profiles

\* get_user(telegram_id): users[0] if users else None
get_user(user) == profiles[user]

\* the id the store gives a new Download entity: one no entity has
NewId == CHOOSE n \in 1..(Len(downloads) + 1) :
             \A d \in 1..Len(downloads) : downloads[d].id # n

\* log_download(download_data): the created entity is appended
log_download(data, result) ==
    IF result = "ok" THEN Append(downloads, [data EXCEPT !.id = NewId])
                     ELSE downloads

\* update_download(download_id, data): PATCH of the entity with that id;
\* an id the store does not know changes nothing.
update_download(download_id, data, result) ==
    [d \in 1..Len(downloads) |->
        IF result = "ok" /\ downloads[d].id = download_id
        THEN [f \in DOMAIN downloads[d] |->
                 IF f \in DOMAIN data THEN data[f]
                 ELSE IF f = "updates" THEN Append(downloads[d][f], data.status)
                 ELSE downloads[d][f]]
        ELSE downloads[d]]

(* ------------------------------------------------------------------ *)
(* handle_url                                                           *)
(* ------------------------------------------------------------------ *)
\* await base44.sync_user(...) returns; the platform is detected and the
\* URL stored in the session slot of the user; the handler awaits reply_text.
UrlSyncUser(k, result) ==
    /\ k \in 1..Len(urls)
    /\ urls[k].pc = "sync_user"
    /\ IF result = "raise"
       THEN /\ urls' = [urls EXCEPT ![k].pc = "done"]
            /\ UNCHANGED <<user_data, profiles, served>>
       ELSE LET u == urls[k].user
                platform == detect_platform(urls[k].url)
            IN  /\ profiles' = sync_user(u, << >>, result)
                /\ user_data' = [user_data EXCEPT ![u] =
                       Put(Put(@, "pending_url", urls[k].url), "platform", platform)]
                /\ served' = [served EXCEPT ![u] = NotServed]
                /\ urls' = [urls EXCEPT ![k].pc = "reply_text",
                                        ![k].platform = platform,
                                        ![k].stored = TRUE]
    /\ UNCHANGED <<downloads, fs, wf, received, submitted>>

\* await update.message.reply_text(...) returns or raises
UrlReplyText(k, result) ==
    /\ k \in 1..Len(urls)
    /\ urls[k].pc = "reply_text"
    /\ urls' = [urls EXCEPT ![k].pc = "done"]
    /\ UNCHANGED <<user_data, profiles, downloads, fs, wf, received, submitted, served>>

(* ------------------------------------------------------------------ *)
(* handle_quality_selection                                             *)
(* ------------------------------------------------------------------ *)
\* str(e) of the exceptions the workflow catches
ChatError == <<"T", "i", "m", "e", "d", " ", "o", "u", "t">>
ApiError == <<"C", "a", "n", "n", "o", "t", " ", "c", "o", "n", "n", "e", "c", "t">>
DownloadError == <<"E", "R", "R", "O", "R", ":", " ", "U", "n", "s", "u", "p", "p", "o", "r", "t", "e", "d", " ", "U", "R", "L">>
FileError == <<"N", "o", " ", "s", "u", "c", "h", " ", "f", "i", "l", "e">>
SendError == <<"B", "a", "d", " ", "G", "a", "t", "e", "w", "a", "y">>
\* a message of the extraction backend of 502 characters
LongError == DownloadError \o [n \in 1..479 |-> "."] \o <<"!">>
DownloadErrors == {DownloadError, LongError}
\* KeyError(quality)
KeyError(quality) == <<"'">> \o quality \o <<"'">>

\* length of the error text written to the record (str(e)[:500])
ErrorMessageLen == 500

\* length of the error text shown to the user (str(e)[:100])
ShownErrorLen == 100

\* settings.get("error_message", default): the default, its first
\* character a cross mark
DefaultErrorMessage ==
    <<"X", " ", "D", "o", "w", "n", "l", "o", "a", "d", " ", "f", "a", "i", "l", "e", "d", ".">>

\* "\n\nError: "
ErrorLabel == <<"\n", "\n", "E", "r", "r", "o", "r", ":", " ">>

\* the BotSettings entities the store can hold when get_settings reads
\* them: none, an error_message, another setting, two entities with the
\* key error_message
AdminMessage == <<"S", "o", "r", "r", "y">>
OtherMessage == <<"H", "i">>
NoSettings == << >>
SettingsStores ==
    { NoSettings,
      <<[setting_key |-> "error_message", setting_value |-> AdminMessage]>>,
      <<[setting_key |-> "welcome_message", setting_value |-> OtherMessage]>>,
      <<[setting_key |-> "error_message", setting_value |-> OtherMessage],
        [setting_key |-> "error_message", setting_value |-> AdminMessage]>> }

\* get_settings(): {s["setting_key"]: s["setting_value"] for s in settings},
\* where a later entity with the same key replaces an earlier one
get_settings(entities) ==
    [k \in {entities[n].setting_key : n \in 1..Len(entities)} |->
        LET last == CHOOSE n \in 1..Len(entities) :
                        /\ entities[n].setting_key = k
                        /\ \A m \in (n + 1)..Len(entities) :
                               entities[m].setting_key # k
        IN  entities[last].setting_value]

\* The locals of a call when the callback query arrives.  extracted,
\* sent, reads and stats count the extractions, deliveries, profile reads
\* and accepted stats writes of the call so far; patched lists the statuses
\* of the update_download calls that returned; foreign tells that the path
\* of the file held a file of another call when extract_info returned,
\* touched that the call has read or removed the file at its path; shown
\* is the text of the failure message the call has shown.
NewCall(id, u, data) ==
    [id |-> id, user |-> u, data |-> data, quality |-> << >>, url |-> << >>,
     platform |-> "other", db_user |-> NoUser, max_size |-> ZeroBytes,
     download_id |-> 0, title |-> "", filename |-> NoPath,
     file_size |-> ZeroBytes, e |-> << >>, pc |-> "answer", outcome |-> "",
     extracted |-> 0, sent |-> 0, reads |-> 0, stats |-> 0,
     patched |-> << >>, foreign |-> FALSE, touched |-> FALSE,
     settings |-> << >>, shown |-> << >>]

\* the handler returns or an exception leaves it: outcome "raised" for an
\* exception of a chat call, "api_raised" for one of a bookkeeping call
Finish(i, outcome) ==
    wf' = [wf EXCEPT ![i].pc = "done", ![i].outcome = outcome]

\* an exception inside the try block: control moves to the except clause,
\* which awaits update_download(download_id, failed)
Except(i, e) ==
    wf' = [wf EXCEPT ![i].pc = "update_failed", ![i].e = e]

At(i, pc) == i \in 1..Len(wf) /\ wf[i].pc = pc

\* the session check left out
NoPendingUrlMut(url) == FALSE

\* if not url (215)
NoPendingUrl(url) == url = << >>

\* await query.answer() (207); then the data is split and the session slot
\* read (209-213); without a pending URL the handler awaits the
\* "session expired" edit, otherwise get_user.
Answer(i, result) ==
    /\ At(i, "answer")
    /\ IF result = "raise"
       THEN Finish(i, "raised")
       ELSE LET data == Split(wf[i].data, ":")
                url == Get(user_data[wf[i].user], "pending_url", << >>)
                platform == Get(user_data[wf[i].user], "platform", "other")
            IN  wf' = [wf EXCEPT ![i].quality = data[2],
                                 ![i].url = url,
                                 ![i].platform = platform,
                                 ![i].data = << >>,
                                 ![i].pc = IF NoPendingUrl(url)
                                           THEN "edit_expired"
                                           ELSE "get_user"]
    /\ UNCHANGED <<user_data, profiles, downloads, fs, urls, received, submitted, served>>

\* await query.edit_message_text("Session expired ...") (216), return
EditExpired(i, result) ==
    /\ At(i, "edit_expired")
    /\ Finish(i, IF result = "raise" THEN "raised" ELSE "SessionExpired")
    /\ UNCHANGED <<user_data, profiles, downloads, fs, urls, received, submitted, served>>

\* the ban read from the wrong field of the profile
BanCheckMut(db_user) == db_user.exists /\ db_user.is_premium

\* if is_banned (224)
BanCheck(db_user) == db_user.exists /\ db_user.is_banned

\* await base44.get_user(...) (220); is_premium, is_banned and max_size are
\* computed (221-228); a banned user gets the ban message, the others
\* log_download.
GetUser(i, result) ==
    /\ At(i, "get_user")
    /\ IF result = "raise"
       THEN Finish(i, "api_raised")
       ELSE LET db_user == get_user(wf[i].user)
                is_premium == db_user.exists /\ db_user.is_premium
            IN  wf' = [wf EXCEPT
                    ![i].db_user = db_user,
                    ![i].reads = @ + 1,
                    ![i].max_size = IF is_premium THEN PREMIUM_MAX_SIZE
                                                  ELSE FREE_MAX_SIZE,
                    ![i].pc = IF BanCheck(db_user) THEN "edit_banned"
                                                   ELSE "log_download"]
    /\ UNCHANGED <<user_data, profiles, downloads, fs, urls, received, submitted, served>>

\* await query.edit_message_text("You are banned ...") (225), return
EditBanned(i, result) ==
    /\ At(i, "edit_banned")
    /\ Finish(i, IF result = "raise" THEN "raised" ELSE "Banned")
    /\ UNCHANGED <<user_data, profiles, downloads, fs, urls, received, submitted, served>>

\* the entity log_download posts (231-239); id is given by the store;
\* title, file_size and error_message are the fields later updates add;
\* updates lists the statuses the updates applied to the entity wrote, call
\* is the call that created it
DownloadData(i) ==
    [telegram_user_id |-> wf[i].user,
     url |-> wf[i].url,
     platform |-> wf[i].platform,
     quality |-> wf[i].quality,
     status |-> "downloading",
     media_type |-> IF wf[i].quality = AUDIO THEN "audio" ELSE "video",
     format |-> IF wf[i].quality = AUDIO THEN "mp3" ELSE "mp4",
     id |-> 0, title |-> "", file_size |-> ZeroBytes, error_message |-> << >>,
     updates |-> << >>, call |-> wf[i].id]

\* await base44.log_download(...) (231); download_id is the id of the
\* entity the store answered with, None (0) when it answered with an error.
LogDownload(i, result) ==
    /\ At(i, "log_download")
    /\ IF result = "raise"
       THEN /\ Finish(i, "api_raised")
            /\ UNCHANGED <<downloads, served>>
       ELSE /\ downloads' = log_download(DownloadData(i), result)
            /\ served' = [served EXCEPT ![wf[i].user].records =
                              IF result = "ok" THEN Min(@ + 1, 2) ELSE @]
            /\ wf' = [wf EXCEPT
                   ![i].download_id = IF result = "ok" THEN NewId ELSE 0,
                   ![i].pc = "edit_starting"]
    /\ UNCHANGED <<user_data, profiles, fs, urls, received, submitted>>

\* await query.edit_message_text("Starting download...") (242), outside the
\* try block; then the options are built (246-266), where an unknown preset
\* raises KeyError inside the try block.
EditStarting(i, result) ==
    /\ At(i, "edit_starting")
    /\ IF result = "raise"
       THEN Finish(i, "raised")
       ELSE IF wf[i].quality # AUDIO /\ ~HasHeight(wf[i].quality)
       THEN Except(i, KeyError(wf[i].quality))
       ELSE wf' = [wf EXCEPT ![i].pc = "edit_downloading"]
    /\ UNCHANGED <<user_data, profiles, downloads, fs, urls, received, submitted, served>>

(* ------------------------------------------------------------------ *)
(* Files under /tmp                                                     *)
(* ------------------------------------------------------------------ *)
\* os.path.exists(path)
Exists(path) == \E f \in fs : f.path = path

\* os.path.getsize(path) of an existing file
getsize(path) == (CHOOSE f \in fs : f.path = path).size

\* the backend writes the file at path (replacing what was there); owner is
\* the call whose extraction wrote it
WriteFile(path, size, owner) ==
    {f \in fs : f.path # path} \cup {[path |-> path, size |-> size, owner |-> owner]}

\* os.remove(path) of an existing file
RemoveFile(path) == {f \in fs : f.path # path}

\* the extension of the file the options ask for: mp3 after the audio
\* post-processor (278), mp4 from merge_output_format (264)
ExtOf(quality) == IF quality = AUDIO THEN "mp3" ELSE "mp4"

\* a file of exactly the limit counted as too large
TooLargeGeMut(file_size, max_size) == ~BytesGT(max_size, file_size)

\* the sizes compared in whole GiB
TooLargeMut(file_size, max_size) == file_size.hi > max_size.hi

\* if file_size > max_size (283)
TooLarge(file_size, max_size) == BytesGT(file_size, max_size)

\* await status_msg.edit_text("Downloading... 0%") (269); then the handler
\* calls extract_info (271-273), a synchronous call: the event loop runs
\* nothing else until it returns.
EditDownloading(i, result) ==
    /\ At(i, "edit_downloading")
    /\ IF result = "raise"
       THEN /\ Except(i, ChatError)
            /\ UNCHANGED served
       ELSE /\ served' = [served EXCEPT ![wf[i].user].extractions = Min(@ + 1, 2)]
            /\ wf' = [wf EXCEPT ![i].pc = "extract_info",
                                ![i].extracted = @ + 1]
    /\ UNCHANGED <<user_data, profiles, downloads, fs, urls, received, submitted>>

\* extract_info returns or raises (271-278); then, without an await,
\* getsize (281) and the size check (283), which removes an oversized file
\* (284).  ok = FALSE: extract_info raises.
ExtractInfo(i, ok, e, title, size) ==
    /\ At(i, "extract_info")
    /\ IF ~ok
       THEN /\ Except(i, e)
            /\ UNCHANGED fs
       ELSE LET filename == Path(wf[i].user, title, ExtOf(wf[i].quality))
                large == TooLarge(size, wf[i].max_size)
            IN  /\ wf' = [wf EXCEPT ![i].title = title,
                                    ![i].filename = filename,
                                    ![i].file_size = size,
                                    ![i].foreign = Exists(filename),
                                    ![i].touched = large,
                                    ![i].pc = IF large THEN "update_toolarge"
                                                       ELSE "edit_uploading"]
                /\ fs' = IF large THEN RemoveFile(filename)
                                  ELSE WriteFile(filename, size, wf[i].id)
    /\ UNCHANGED <<user_data, profiles, downloads, urls, received, submitted, served>>

\* the update of the record after the size check (286-289); the text of
\* the message is not modelled beyond its being a size message
TooLargeData == [status |-> "failed", error_message |-> <<"F", "i", "l", "e", " ", "t", "o", "o", " ", "l", "a", "r", "g", "e">>]

\* await base44.update_download(download_id, failed) (286)
UpdateTooLarge(i, result) ==
    /\ At(i, "update_toolarge")
    /\ IF result = "raise"
       THEN /\ Except(i, ApiError)
            /\ UNCHANGED downloads
       ELSE /\ downloads' = update_download(wf[i].download_id, TooLargeData, result)
            /\ wf' = [wf EXCEPT ![i].pc = "edit_toolarge",
                                ![i].patched = Append(@, "failed")]
    /\ UNCHANGED <<user_data, profiles, fs, urls, received, submitted, served>>

\* await status_msg.edit_text("File is ... exceeds ...") (292/297), return
EditTooLarge(i, result) ==
    /\ At(i, "edit_toolarge")
    /\ IF result = "raise" THEN Except(i, ChatError)
                           ELSE Finish(i, "SizeRejected")
    /\ UNCHANGED <<user_data, profiles, downloads, fs, urls, received, submitted, served>>

\* await status_msg.edit_text("Uploading to Telegram...") (301)
EditUploading(i, result) ==
    /\ At(i, "edit_uploading")
    /\ IF result = "raise" THEN Except(i, ChatError)
                           ELSE wf' = [wf EXCEPT ![i].pc = "read_file"]
    /\ UNCHANGED <<user_data, profiles, downloads, fs, urls, received, submitted, served>>

\* async with aiofiles.open(filename, "rb") ... await f.read() (303-304):
\* raises when the file is not there
ReadFile(i) ==
    /\ At(i, "read_file")
    /\ IF Exists(wf[i].filename) THEN wf' = [wf EXCEPT ![i].pc = "send",
                                                       ![i].touched = TRUE]
                                 ELSE Except(i, FileError)
    /\ UNCHANGED <<user_data, profiles, downloads, fs, urls, received, submitted, served>>

\* await update.effective_chat.send_audio / send_video (306-318)
Send(i, result) ==
    /\ At(i, "send")
    /\ IF result = "raise"
       THEN Except(i, SendError)
       ELSE wf' = [wf EXCEPT ![i].sent = @ + 1, ![i].pc = "update_completed"]
    /\ UNCHANGED <<user_data, profiles, downloads, fs, urls, received, submitted, served>>

\* the update of the record after the delivery (321-326); the duration is
\* not modelled
CompletedData(i) ==
    [status |-> "completed", title |-> wf[i].title, file_size |-> wf[i].file_size]

\* if db_user (329): the stats are written for a user whose entity was read
HasStats(db_user) == db_user.exists

\* await base44.update_download(download_id, completed) (321)
UpdateCompleted(i, result) ==
    /\ At(i, "update_completed")
    /\ IF result = "raise"
       THEN /\ Except(i, ApiError)
            /\ UNCHANGED downloads
       ELSE /\ downloads' = update_download(wf[i].download_id, CompletedData(i), result)
            /\ wf' = [wf EXCEPT ![i].pc = IF HasStats(wf[i].db_user)
                                          THEN "sync_user" ELSE "edit_complete",
                                ![i].patched = Append(@, "completed")]
    /\ UNCHANGED <<user_data, profiles, fs, urls, received, submitted, served>>

\* the counters sync_user is given (330-334), computed from the entity
\* read at the start of the call
StatsData(i) ==
    [total_downloads |-> wf[i].db_user.total_downloads + 1,
     total_data_downloaded |->
         BytesAdd(wf[i].db_user.total_data_downloaded, wf[i].file_size)]

\* await base44.sync_user(stats) (330)
SyncUser(i, result) ==
    /\ At(i, "sync_user")
    /\ IF result = "raise"
       THEN /\ Except(i, ApiError)
            /\ UNCHANGED profiles
       ELSE /\ profiles' = sync_user(wf[i].user, StatsData(i), result)
            /\ wf' = [wf EXCEPT ![i].pc = "edit_complete",
                                ![i].stats = IF result = "ok" THEN @ + 1 ELSE @]
    /\ UNCHANGED <<user_data, downloads, fs, urls, received, submitted, served>>

\* await status_msg.edit_text("Download complete!") (336); then
\* os.remove(filename) (339), which raises when the file is not there;
\* the handler returns.
EditComplete(i, result) ==
    /\ At(i, "edit_complete")
    /\ IF result = "raise"
       THEN /\ Except(i, ChatError)
            /\ UNCHANGED fs
       ELSE IF ~Exists(wf[i].filename)
       THEN /\ Except(i, FileError)
            /\ UNCHANGED fs
       ELSE /\ fs' = RemoveFile(wf[i].filename)
            /\ Finish(i, "Completed")
    /\ UNCHANGED <<user_data, profiles, downloads, urls, received, submitted, served>>

\* the update of the record in the except clause (343-346)
FailedData(e) == [status |-> "failed", error_message |-> Take(e, ErrorMessageLen)]

\* await base44.update_download(download_id, failed) (343) in the except
\* clause; an exception here leaves the handler
UpdateFailed(i, result) ==
    /\ At(i, "update_failed")
    /\ IF result = "raise"
       THEN /\ Finish(i, "api_raised")
            /\ UNCHANGED downloads
       ELSE /\ downloads' = update_download(wf[i].download_id, FailedData(wf[i].e), result)
            /\ wf' = [wf EXCEPT ![i].pc = "get_settings",
                                ![i].patched = Append(@, "failed")]
    /\ UNCHANGED <<user_data, profiles, fs, urls, received, submitted, served>>

\* settings = await base44.get_settings() (348), the store holding the
\* given BotSettings entities
GetSettings(i, result, entities) ==
    /\ At(i, "get_settings")
    /\ IF result = "raise"
       THEN Finish(i, "api_raised")
       ELSE wf' = [wf EXCEPT ![i].pc = "edit_error",
                             ![i].settings = get_settings(entities)]
    /\ UNCHANGED <<user_data, profiles, downloads, fs, urls, received, submitted, served>>

\* error_msg = settings.get("error_message", default) (349); await
\* status_msg.edit_text(f"{error_msg}\n\nError: {str(e)[:100]}") (350);
\* the handler returns
EditError(i, result) ==
    /\ At(i, "edit_error")
    /\ IF result = "raise"
       THEN Finish(i, "raised")
       ELSE LET error_msg == Get(wf[i].settings, "error_message", DefaultErrorMessage)
            IN  wf' = [wf EXCEPT
                    ![i].pc = "done",
                    ![i].outcome = "Failed",
                    ![i].shown = error_msg \o ErrorLabel \o Take(wf[i].e, ShownErrorLen)]
    /\ UNCHANGED <<user_data, profiles, downloads, fs, urls, received, submitted, served>>

(* ------------------------------------------------------------------ *)
(* Specifications                                                       *)
(* ------------------------------------------------------------------ *)
Calls == 1..MaxUpdates

\* When an update arrives, the calls that have returned and the Download
\* entities they created are dropped from the state, and a file they left
\* behind loses its owner: the bot never reads a Download entity and writes
\* only the one whose id a running call holds, so nothing of them can
\* influence what follows.
Live(c) == c.pc # "done"

LiveIds == {wf[i].id : i \in {j \in 1..Len(wf) : Live(wf[j])}}

LiveDownload(d) == d.call \in LiveIds

LiveCalls == SelectSeq(wf, Live)

LiveUrls == SelectSeq(urls, Live)

LiveDownloads == SelectSeq(downloads, LiveDownload)

LiveFiles == {[f EXCEPT !.owner = IF @ \in LiveIds THEN @ ELSE 0] : f \in fs}

\* the first update comes from user 1
FirstUser(u) == received = 0 => u = 1

\* A text message that matches https?:// arrives: handle_url starts with
\* url = text.strip() (182) and awaits sync_user.
UrlMessage(u, text) ==
    /\ received < MaxUpdates
    /\ FirstUser(u)
    /\ received' = received + 1
    /\ urls' = Append(LiveUrls, [user |-> u, url |-> Strip(text),
                                 platform |-> "other", stored |-> FALSE,
                                 pc |-> "sync_user"])
    /\ wf' = LiveCalls
    /\ downloads' = LiveDownloads
    /\ fs' = LiveFiles
    /\ submitted' = [submitted EXCEPT ![u] = Strip(text)]
    /\ UNCHANGED <<user_data, profiles, served>>

\* A callback query matching ^quality: arrives: handle_quality_selection
\* starts and awaits query.answer().
Click(u, data) ==
    /\ received < MaxUpdates
    /\ FirstUser(u)
    /\ received' = received + 1
    /\ wf' = Append(LiveCalls, NewCall(received + 1, u, data))
    /\ urls' = LiveUrls
    /\ downloads' = LiveDownloads
    /\ fs' = LiveFiles
    /\ UNCHANGED <<user_data, profiles, submitted, served>>

\* an update arrives and its handler starts
Arrive ==
    \/ \E u \in Users : \E text \in TextsOf(u) : UrlMessage(u, text)
    \/ \E u \in Users : \E data \in ClickDataOf(u) : Click(u, data)

\* a handler in flight moves from one await to the next
Step ==
    \/ \E k \in Calls, r \in WriteResults : UrlSyncUser(k, r)
    \/ \E k \in Calls, r \in CallResults : UrlReplyText(k, r)
    \/ \E i \in Calls, r \in CallResults : Answer(i, r)
    \/ \E i \in Calls, r \in CallResults : EditExpired(i, r)
    \/ \E i \in Calls, r \in CallResults : GetUser(i, r)
    \/ \E i \in Calls, r \in CallResults : EditBanned(i, r)
    \/ \E i \in Calls, r \in WriteResults : LogDownload(i, r)
    \/ \E i \in Calls, r \in CallResults : EditStarting(i, r)
    \/ \E i \in Calls, r \in CallResults : EditDownloading(i, r)
    \/ \E i \in Calls, ok \in BOOLEAN, title \in Titles, size \in Sizes :
           ExtractInfo(i, ok, DownloadError, title, size)
    \/ \E i \in Calls, r \in WriteResults : UpdateTooLarge(i, r)
    \/ \E i \in Calls, r \in CallResults : EditTooLarge(i, r)
    \/ \E i \in Calls, r \in CallResults : EditUploading(i, r)
    \/ \E i \in Calls : ReadFile(i)
    \/ \E i \in Calls, r \in CallResults : Send(i, r)
    \/ \E i \in Calls, r \in WriteResults : UpdateCompleted(i, r)
    \/ \E i \in Calls, r \in WriteResults : SyncUser(i, r)
    \/ \E i \in Calls, r \in CallResults : EditComplete(i, r)
    \/ \E i \in Calls, r \in WriteResults : UpdateFailed(i, r)
    \/ \E i \in Calls, r \in CallResults : GetSettings(i, r, NoSettings)
    \/ \E i \in Calls, r \in CallResults : EditError(i, r)

\* main(): the Application is built without concurrent_updates, so it
\* handles one update at a time: the handler of an update runs to its end
\* before the next update is dispatched.
Next == (Idle /\ Arrive) \/ Step

Spec == Init /\ [][Next]_vars

\* SpecPlatform: handle_url alone, for one user and a wider choice of URLs.
WideTexts ==
    Texts \cup {
        <<"h", "t", "t", "p", ":", "/", "/", "Y", "o", "u", "T", "u", "b", "e", ".", "C", "O", "M", "/", "w">>,
        <<"h", "t", "t", "p", ":", "/", "/", "v", "i", "m", "e", "o", ".", "c", "o", "m", "/", "t", "i", "k", "t", "o", "k", ".", "c", "o", "m">>,
        <<"h", "t", "t", "p", ":", "/", "/", "a", ".", "b", "/", "c">>,
        <<"h", "t", "t", "p", ":", "/", "/", "i", "n", "s", "t", "a", "g", "r", "a", "m", ".", "c", "o", "m", "/", "p">>,
        <<"h", "t", "t", "p", ":", "/", "/", "f", "a", "c", "e", "b", "o", "o", "k", ".", "c", "o", "m", "/", "v">>,
        <<"h", "t", "t", "p", ":", "/", "/", "s", "o", "u", "n", "d", "c", "l", "o", "u", "d", ".", "c", "o", "m", "/", "s">>,
        <<"h", "t", "t", "p", ":", "/", "/", "s", "p", "o", "t", "i", "f", "y", ".", "c", "o", "m", "/", "y", "o", "u", "t", "u", "b", "e", ".", "c", "o", "m">>,
        <<"h", "t", "t", "p", ":", "/", "/", "n", "e", "t", "f", "l", "i", "x", ".", "c", "o", "m", "/", "x">>,
        <<"h", "t", "t", "p", ":", "/", "/", "t", "w", "i", "t", "t", "e", "r", ".", "c", "o", "m", "/", "i">>,
        <<"h", "t", "t", "p", ":", "/", "/", "y", "o", "u", "t", "u", "b", "e", "X", "c", "o", "m", "/", "a">>,
        <<"h", "t", "t", "p", ":", "/", "/", "s", "p", "o", "t", "i", "f", "y", ".", "c", "o", "m", "/", "t">> }

ArrivePlatform == \E text \in WideTexts : UrlMessage(1, text)

StepPlatform ==
    \/ \E k \in Calls, r \in WriteResults : UrlSyncUser(k, r)
    \/ \E k \in Calls, r \in CallResults : UrlReplyText(k, r)

NextPlatform == (Idle /\ ArrivePlatform) \/ StepPlatform

SpecPlatform == Init /\ [][NextPlatform]_vars

\* SpecPolicy: the handlers of one user who sends one URL and presses every
\* button of its keyboard, with the file sizes at the limit of each tier;
\* no call fails, except that the store can refuse a write.
\* The sizes: the limit of each tier and one byte more.
PolicySizes == { Bytes(1, 0), Bytes(1, 1), Bytes(5, 0), Bytes(5, 1) }

\* every button of the keyboard shown for the URL, and the forged data
AllClickData ==
    { get_quality_keyboard(UrlShort)[b] : b \in 1..(Len(QUALITY_OPTIONS) + 1) }
        \cup {ForgedData}

ArrivePolicy ==
    \/ UrlMessage(1, <<SP>> \o UrlShort \o <<SP>>)
    \/ \E data \in AllClickData : Click(1, data)

StepPolicy ==
    \/ \E k \in Calls, r \in {"ok", "error_status"} : UrlSyncUser(k, r)
    \/ \E k \in Calls : UrlReplyText(k, "ok")
    \/ \E i \in Calls : Answer(i, "ok")
    \/ \E i \in Calls : EditExpired(i, "ok")
    \/ \E i \in Calls : GetUser(i, "ok")
    \/ \E i \in Calls : EditBanned(i, "ok")
    \/ \E i \in Calls, r \in {"ok", "error_status"} : LogDownload(i, r)
    \/ \E i \in Calls : EditStarting(i, "ok")
    \/ \E i \in Calls : EditDownloading(i, "ok")
    \/ \E i \in Calls, title \in Titles, size \in PolicySizes :
           ExtractInfo(i, TRUE, DownloadError, title, size)
    \/ \E i \in Calls : UpdateTooLarge(i, "ok")
    \/ \E i \in Calls : EditTooLarge(i, "ok")
    \/ \E i \in Calls : EditUploading(i, "ok")
    \/ \E i \in Calls : ReadFile(i)
    \/ \E i \in Calls : Send(i, "ok")
    \/ \E i \in Calls : UpdateCompleted(i, "ok")
    \/ \E i \in Calls : SyncUser(i, "ok")
    \/ \E i \in Calls : EditComplete(i, "ok")
    \/ \E i \in Calls : UpdateFailed(i, "ok")
    \/ \E i \in Calls : GetSettings(i, "ok", NoSettings)
    \/ \E i \in Calls : EditError(i, "ok")

NextPolicy == (Idle /\ ArrivePolicy) \/ StepPolicy

SpecPolicy == Init /\ [][NextPolicy]_vars

\* SpecStats: one user sends a URL and presses the audio button of its
\* keyboard several times.  The calls that have returned stay in the state
\* when a click arrives, so that the counters two calls of the user leave
\* can be compared with what the first of them read.
ClickKept(u, data) ==
    /\ received < MaxUpdates
    /\ FirstUser(u)
    /\ received' = received + 1
    /\ wf' = Append(wf, NewCall(received + 1, u, data))
    /\ urls' = LiveUrls
    /\ UNCHANGED <<user_data, profiles, downloads, fs, submitted, served>>

ArriveStats ==
    \/ UrlMessage(1, <<SP>> \o UrlShort \o <<SP>>)
    \/ ClickKept(1, get_quality_keyboard(UrlShort)[10])

NextStats == (Idle /\ ArriveStats) \/ Step

SpecStats == Init /\ [][NextStats]_vars

\* SpecErrors: one user sends a URL and presses the 720p button of its
\* keyboard; every call can fail, the extraction backend fails with a short
\* or a long message, and the store holds any of the settings.
ArriveErrors ==
    \/ UrlMessage(1, <<SP>> \o UrlShort \o <<SP>>)
    \/ Click(1, get_quality_keyboard(UrlShort)[5])

StepErrors ==
    \/ \E k \in Calls, r \in WriteResults : UrlSyncUser(k, r)
    \/ \E k \in Calls, r \in CallResults : UrlReplyText(k, r)
    \/ \E i \in Calls, r \in CallResults : Answer(i, r)
    \/ \E i \in Calls, r \in CallResults : EditExpired(i, r)
    \/ \E i \in Calls, r \in CallResults : GetUser(i, r)
    \/ \E i \in Calls, r \in CallResults : EditBanned(i, r)
    \/ \E i \in Calls, r \in WriteResults : LogDownload(i, r)
    \/ \E i \in Calls, r \in CallResults : EditStarting(i, r)
    \/ \E i \in Calls, r \in CallResults : EditDownloading(i, r)
    \/ \E i \in Calls, ok \in BOOLEAN, e \in DownloadErrors,
          title \in Titles, size \in Sizes :
           ExtractInfo(i, ok, e, title, size)
    \/ \E i \in Calls, r \in WriteResults : UpdateTooLarge(i, r)
    \/ \E i \in Calls, r \in CallResults : EditTooLarge(i, r)
    \/ \E i \in Calls, r \in CallResults : EditUploading(i, r)
    \/ \E i \in Calls : ReadFile(i)
    \/ \E i \in Calls, r \in CallResults : Send(i, r)
    \/ \E i \in Calls, r \in WriteResults : UpdateCompleted(i, r)
    \/ \E i \in Calls, r \in WriteResults : SyncUser(i, r)
    \/ \E i \in Calls, r \in CallResults : EditComplete(i, r)
    \/ \E i \in Calls, r \in WriteResults : UpdateFailed(i, r)
    \/ \E i \in Calls, r \in CallResults, entities \in SettingsStores :
           GetSettings(i, r, entities)
    \/ \E i \in Calls, r \in CallResults : EditError(i, r)

NextErrors == (Idle /\ ArriveErrors) \/ StepErrors

SpecErrors == Init /\ [][NextErrors]_vars

(* ------------------------------------------------------------------ *)
(* Claims                                                               *)
(* ------------------------------------------------------------------ *)
CallIx == 1..Len(wf)
RecIx == 1..Len(downloads)

Done(i) == wf[i].pc = "done"

\* the Download entities call i created
RecordsOf(i) == {d \in RecIx : downloads[d].call = wf[i].id}

Terminal == {"completed", "failed"}

\* the profile counters of the user of call i are those the call read
CountersAsRead(i) ==
    /\ profiles[wf[i].user].total_downloads = wf[i].db_user.total_downloads
    /\ profiles[wf[i].user].total_data_downloaded
           = wf[i].db_user.total_data_downloaded

\* C1: a record created with status downloading is updated at most once
\* afterwards, to a terminal status; a record that is completed or failed
\* is never updated again.
C1_UpdatedAtMostOnce ==
    \A d \in RecIx :
        /\ Len(downloads[d].updates) <= 1
        /\ \A k \in 1..Len(downloads[d].updates) :
               downloads[d].updates[k] \in Terminal

\* C2: when the call that created a record has finished, by return or by
\* an exception leaving the handler, the status of the record is completed
\* or failed, never still downloading.
C2_TerminalWhenFinished ==
    \A i \in CallIx :
        Done(i) => \A d \in RecordsOf(i) : downloads[d].status \in Terminal

\* C3: when a call has terminated, the media file its extraction produced
\* no longer exists.
C3_NoFileLeftBehind ==
    \A i \in CallIx :
        Done(i) =>
            ~\E f \in fs : f.owner = wf[i].id /\ f.path = wf[i].filename

\* C4: a call that completes successfully (file delivered, record set to
\* completed) has raised totalDownloads by exactly 1 and
\* totalBytesDownloaded by exactly the size of the delivered file, once,
\* also for a user the store returned no profile for.
C4_StatsCountedOnce ==
    \A i \in CallIx :
        ( /\ Done(i)
          /\ wf[i].sent = 1
          /\ \E d \in RecordsOf(i) : downloads[d].status = "completed" )
        => /\ wf[i].stats = 1
           /\ profiles[wf[i].user].exists
           /\ profiles[wf[i].user].total_downloads
                  = wf[i].db_user.total_downloads + 1
           /\ profiles[wf[i].user].total_data_downloaded
                  = BytesAdd(wf[i].db_user.total_data_downloaded, wf[i].file_size)

\* C5: a call whose record ends with status failed, or that ended before
\* it created a record (session expired, banned), has left totalDownloads
\* and totalBytesDownloaded unchanged.
C5_NoStatsOnFailure ==
    \A i \in CallIx :
        ( /\ Done(i)
          /\ \/ \E d \in RecordsOf(i) : downloads[d].status = "failed"
             \/ wf[i].outcome \in {"SessionExpired", "Banned"} )
        => /\ wf[i].stats = 0
           /\ wf[i].reads > 0 => CountersAsRead(i)

\* C6: a call that finds no pending URL in the session state of its user
\* ends in SessionExpired: it creates no record, neither reads nor writes
\* the profile, invokes no extraction and sends no file.
C6_SessionExpired ==
    \A i \in CallIx :
        (wf[i].pc # "answer" /\ wf[i].url = << >>) =>
            /\ wf[i].pc \in {"edit_expired", "done"}
            /\ Done(i) => wf[i].outcome \in {"SessionExpired", "raised"}
            /\ RecordsOf(i) = {}
            /\ wf[i].download_id = 0
            /\ wf[i].reads = 0
            /\ wf[i].stats = 0
            /\ wf[i].extracted = 0
            /\ wf[i].sent = 0

\* a call of a user who has a profile but no pending URL has ended in
\* SessionExpired
C6_Witness ==
    \E i \in CallIx :
        /\ Done(i)
        /\ wf[i].outcome = "SessionExpired"
        /\ wf[i].url = << >>
        /\ profiles[wf[i].user].exists

\* C7: a call whose loaded profile has is_banned ends without invoking
\* the extraction backend and without a send-file call, whatever the
\* quality and the pending URL.
C7_BannedNoExtraction ==
    \A i \in CallIx :
        (wf[i].reads > 0 /\ wf[i].db_user.exists /\ wf[i].db_user.is_banned) =>
            /\ wf[i].pc \in {"edit_banned", "done"}
            /\ Done(i) => wf[i].outcome \in {"Banned", "raised"}
            /\ wf[i].extracted = 0
            /\ wf[i].sent = 0
            /\ RecordsOf(i) = {}

\* a banned user with a pending URL clicked the audio button and the call
\* ended with the ban message
C7_Witness ==
    \E i \in CallIx :
        /\ Done(i)
        /\ wf[i].outcome = "Banned"
        /\ wf[i].url # << >>
        /\ wf[i].quality = AUDIO
        /\ wf[i].db_user.is_banned

\* the limit of the tier of the profile a call read (a user without a
\* profile counts as free)
TierLimit(i) ==
    IF wf[i].db_user.exists /\ wf[i].db_user.is_premium
    THEN PREMIUM_MAX_SIZE ELSE FREE_MAX_SIZE

\* the extraction of call i has succeeded and the size of its file was
\* measured
Measured(i) == wf[i].extracted > 0 /\ wf[i].filename # NoPath

C9_OneRecordPerSubmission ==
    \A u \in Users : served[u].records <= 1 /\ served[u].extractions <= 1

\* C10: the URL a call logs in its record and passes to the extraction
\* backend is the full URL the same user submitted last.
C10_LastSubmittedUrl ==
    /\ \A d \in RecIx :
           downloads[d].url = submitted[downloads[d].telegram_user_id]
    /\ \A i \in CallIx :
           wf[i].extracted > 0 => wf[i].url = submitted[wf[i].user]

\* C11: a failure of a bookkeeping call (get_user, log_download,
\* update_download, sync_user, get_settings) does not crash the workflow:
\* no exception of a bookkeeping call leaves the handler.
C11_BookkeepingFailureTolerated ==
    \A i \in CallIx : Done(i) => wf[i].outcome # "api_raised"

\* the handler of an update of a user other than the user of call i starts
HandleOther(i) ==
    /\ Idle
    /\ \E u \in Users \ {wf[i].user} :
           \/ \E text \in TextsOf(u) : UrlMessage(u, text)
           \/ \E data \in ClickDataOf(u) : Click(u, data)

\* C12: the extraction does not block the workflows of other users: while
\* a call is inside extract_info, the handler of an update of a different
\* user can start.
C12_ExtractionDoesNotBlock ==
    \A i \in CallIx :
        (wf[i].pc = "extract_info" /\ received < MaxUpdates)
            => ENABLED HandleOther(i)

\* C13: the file of a call belongs to that call alone: no call reads, sends
\* or removes the file at a path where the file of another call was.
C13_FileOwnedByOneCall ==
    \A i \in CallIx : ~(wf[i].foreign /\ wf[i].touched)

\* the size check of call i rejected the file / let it pass
Rejected(i) ==
    wf[i].pc \in {"update_toolarge", "edit_toolarge"} \/ wf[i].outcome = "SizeRejected"

Accepted(i) ==
    \/ wf[i].pc \in {"edit_uploading", "read_file", "send", "update_completed",
                     "sync_user", "edit_complete"}
    \/ wf[i].outcome = "Completed"

\* C14: the limit is 1 GiB (1073741824 bytes) for a free user and for a
\* user without a profile and 5 GiB for a premium user; a file of exactly
\* the limit is accepted and a file of one byte more is rejected.
C14_SizePolicy ==
    /\ GiB = 1024 * 1024 * 1024
    /\ \A i \in CallIx :
           wf[i].filename # NoPath =>
               LET premium == wf[i].db_user.exists /\ wf[i].db_user.is_premium
                   limit == IF premium THEN 5 ELSE 1
                   over == \/ wf[i].file_size.hi > limit
                           \/ wf[i].file_size.hi = limit /\ wf[i].file_size.lo > 0
               IN  /\ over => Rejected(i)
                   /\ ~over => Accepted(i)

\* a user without a profile was sent a file of exactly 1 GiB
C14_Witness ==
    \E i \in CallIx :
        /\ ~wf[i].db_user.exists
        /\ wf[i].file_size = [hi |-> 1, lo |-> 0]
        /\ wf[i].outcome = "Completed"

\* the vocabulary of presets with the height cap of each (0: no cap), the
\* audio preset last
Vocabulary == <<
    [preset |-> <<"1", "8", "0", "p">>, cap |-> 180],
    [preset |-> <<"2", "4", "0", "p">>, cap |-> 240],
    [preset |-> <<"3", "6", "0", "p">>, cap |-> 360],
    [preset |-> <<"4", "8", "0", "p">>, cap |-> 480],
    [preset |-> <<"7", "2", "0", "p">>, cap |-> 720],
    [preset |-> <<"1", "0", "8", "0", "p">>, cap |-> 1080],
    [preset |-> <<"1", "4", "4", "0", "p">>, cap |-> 1440],
    [preset |-> <<"4", "k">>, cap |-> 2160],
    [preset |-> <<"b", "e", "s", "t">>, cap |-> 0],
    [preset |-> <<"a", "u", "d", "i", "o">>, cap |-> 0] >>

\* the preset a handler decodes from callback data (209-210)
Decode(data) == Split(data, ":")[2]

\* C15: decoding the token of every button gives back its preset, with the
\* height cap of the vocabulary (audio: audio-only); a selection whose
\* preset is not in the vocabulary never reaches the extraction backend and
\* does not end in the outcome of an extraction failure.
C15_DecodeRoundTrip ==
    /\ \A t \in Texts, n \in 1..Len(Vocabulary) :
           LET quality == Decode(get_quality_keyboard(Strip(t))[n])
           IN  /\ quality = Vocabulary[n].preset
               /\ IF n = Len(Vocabulary)
                  THEN quality = AUDIO
                  ELSE \E h \in 1..Len(HEIGHTS) :
                           /\ HEIGHTS[h].key = quality
                           /\ HEIGHTS[h].height = Vocabulary[n].cap
    /\ \A i \in CallIx :
           ( /\ wf[i].pc # "answer"
             /\ \A n \in 1..Len(Vocabulary) : wf[i].quality # Vocabulary[n].preset )
           => /\ wf[i].extracted = 0
              /\ Done(i) => wf[i].outcome # "Failed"

\* the fixed order of the rules
RuleOrder == <<"youtube", "instagram", "tiktok", "twitter", "facebook",
               "vimeo", "soundcloud", "spotify">>

\* two characters are the same letter, whatever their case
SameLetter(a, b) ==
    a = b \/ \E n \in 1..Len(UpperCase) : {a, b} = {UpperCase[n], LowerCase[n]}

\* the pattern of the rule with this tag occurs somewhere in url, letter
\* case ignored
RuleOccurs(tag, url) ==
    \E r \in 1..Len(PLATFORM_PATTERNS) :
        /\ PLATFORM_PATTERNS[r].platform = tag
        /\ \E a \in 1..Len(PLATFORM_PATTERNS[r].pattern) :
               LET lit == PLATFORM_PATTERNS[r].pattern[a]
               IN  \E k \in 0..(Len(url) - Len(lit)) :
                       \A j \in 1..Len(lit) : SameLetter(lit[j], url[k + j])

\* the tag of the first rule of the order whose pattern occurs in url
FirstRule(url) ==
    IF \E n \in 1..Len(RuleOrder) : RuleOccurs(RuleOrder[n], url)
    THEN RuleOrder[CHOOSE n \in 1..Len(RuleOrder) :
                       /\ RuleOccurs(RuleOrder[n], url)
                       /\ \A m \in 1..(n - 1) : ~RuleOccurs(RuleOrder[m], url)]
    ELSE "other"

\* C16: detect_platform returns, for every URL, the tag of the first rule
\* in the fixed order whose pattern occurs case-insensitively anywhere in
\* the URL, and other when no pattern occurs.
C16_FirstRuleWins ==
    \A k \in 1..Len(urls) :
        urls[k].stored =>
            /\ urls[k].platform = FirstRule(urls[k].url)
            /\ user_data[urls[k].user]["platform"] = urls[k].platform

\* a URL in which the pattern of vimeo occurs before that of tiktok was
\* stored with the tag tiktok
C16_Witness ==
    \E k \in 1..Len(urls) :
        /\ urls[k].stored
        /\ urls[k].url = <<"h", "t", "t", "p", ":", "/", "/", "v", "i", "m", "e", "o", ".", "c", "o", "m", "/", "t", "i", "k", "t", "o", "k", ".", "c", "o", "m">>
        /\ urls[k].platform = "tiktok"

\* two calls of one user, the second the next call after the first, that
\* both ended with the file delivered and the handler returned
CompletedPair(i, j) ==
    /\ j = i + 1
    /\ wf[i].user = wf[j].user
    /\ Done(i) /\ wf[i].outcome = "Completed"
    /\ Done(j) /\ wf[j].outcome = "Completed"

\* C17: when two calls of the same user both complete successfully, the
\* totalDownloads of the user ends 2 higher and the totalBytesDownloaded
\* higher by the sum of the two file sizes than what the first call read
\* before the two workflows: no increment is lost.
C17_NoLostIncrement ==
    \A i \in CallIx, j \in CallIx :
        (CompletedPair(i, j) /\ j = Len(wf)) =>
            /\ profiles[wf[i].user].total_downloads
                   = wf[i].db_user.total_downloads + 2
            /\ profiles[wf[i].user].total_data_downloaded
                   = BytesAdd(BytesAdd(wf[i].db_user.total_data_downloaded,
                                       wf[i].file_size), wf[j].file_size)

\* C18: when a call that created a record has ended, the status of the
\* record is completed if and only if the send of the file succeeded in
\* that call; a call that delivered the file does not end with the failure
\* message shown.
C18_CompletedIffDelivered ==
    \A i \in CallIx :
        (Done(i) /\ RecordsOf(i) # {}) =>
            /\ \A d \in RecordsOf(i) :
                   downloads[d].status = "completed" <=> wf[i].sent = 1
            /\ wf[i].sent = 1 => wf[i].outcome # "Failed"

\* the extraction backend has been invoked by call i
Invoked(i) == wf[i].extracted >= 1

\* each call invokes the extraction backend and the send at most once
NotRepeated(i) == wf[i].extracted <= 1 /\ wf[i].sent <= 1

\* C19: within one call the steps are ordered and not repeated: when the
\* extraction backend is invoked the call has created its record, which
\* has status downloading while the backend runs; the backend is invoked
\* at most once and the file is sent at most once, also after a failure.
C19_OrderedNotRepeated ==
    \A i \in CallIx :
        /\ NotRepeated(i)
        /\ Invoked(i) => RecordsOf(i) # {}
        /\ wf[i].pc = "extract_info" =>
               \A d \in RecordsOf(i) : /\ downloads[d].status = "downloading"
                                       /\ downloads[d].updates = << >>

\* call i failed in the extraction backend or in the send of the file
UpstreamFailure(i) == wf[i].e \in DownloadErrors \cup {SendError}

\* m is the start of the text e, cut after at most n characters
PrefixUpTo(m, e, n) ==
    /\ Len(m) <= n
    /\ Len(m) <= Len(e)
    /\ \A c \in 1..Len(m) : m[c] = e[c]
    /\ Len(m) < Len(e) => Len(m) = n

\* the generic failure message: the error_message setting the store held
\* when the call read the settings, the built-in default without one
GenericMessage(i) ==
    IF "error_message" \in DOMAIN wf[i].settings
    THEN wf[i].settings["error_message"]
    ELSE DefaultErrorMessage

\* C20: when a call that failed in the extraction or in the delivery has
\* ended, its record is failed with an error_message that is the first
\* characters, at most 500, of the upstream error text, and the user has
\* been shown the generic failure message: the error_message setting of the
\* store when present, the built-in default otherwise.  No error_message
\* of any record is longer than 500 characters.
C20_FailureRecordedAndShown ==
    /\ \A i \in CallIx :
           (Done(i) /\ UpstreamFailure(i)) =>
               /\ \A d \in RecordsOf(i) :
                      /\ downloads[d].status = "failed"
                      /\ PrefixUpTo(downloads[d].error_message, wf[i].e, 500)
               /\ wf[i].outcome = "Failed"
               /\ Len(wf[i].shown) >= Len(GenericMessage(i))
               /\ SubSeq(wf[i].shown, 1, Len(GenericMessage(i))) = GenericMessage(i)
    /\ \A d \in RecIx : Len(downloads[d].error_message) <= 500

====
